---- MODULE Spec2Model ----
(***************************************************************************)
(* A model of decompress_dicom.py: the format classifier (is_compressed),  *)
(* the single-file converter (decompress_and_save_with_metadata), the      *)
(* directory walker (process_dicom_directory) and the command-line entry.  *)
(*                                                                         *)
(* A path is a sequence of components, a component (a file or directory    *)
(* name) is a sequence of one-character strings, so that str.lower and     *)
(* str.endswith are computed character by character.  The file system is   *)
(* a function from paths to file contents plus a set of directories.       *)
(* The two libraries are modelled by their outcomes: a read, a decode or   *)
(* a write either succeeds or raises, as the content of the file and the   *)
(* environment decide.                                                     *)
(***************************************************************************)
EXTENDS Integers, Sequences, FiniteSets, TLC

VARIABLES
    entry,       \* "main": the command line is run; "library": a function is called
    input_dir,   \* args.input_dir
    output_dir,  \* args.output_dir; <<>> is None (or the empty string): falsy
    fs,          \* the regular files: path -> content
    dirs,        \* the directories that exist
    pc,          \* "start", "walk", "done", "crashed" (an uncaught exception)
    stack,       \* os.walk: the directories still to scan, next first
    files,       \* the files of the directory being scanned not yet processed
    log,         \* the records handed to logging
    classified,  \* history: every is_compressed call, its file and its answer
    calls,       \* history: every converter call, in order
    enumerated,  \* history: every file path os.walk has yielded
    fs0          \* history: the files as they were at the start

vars == <<entry, input_dir, output_dir, fs, dirs, pc, stack, files, log,
          classified, calls, enumerated, fs0>>

\* The number of files in the input tree at the start.
MaxFiles == 2

-----------------------------------------------------------------------------
(* Strings *)

\* str.lower on one character (the letters the model's names use and the rest
\* of the alphabet).
LowerChar(c) ==
    CASE c = "A" -> "a" [] c = "B" -> "b" [] c = "C" -> "c" [] c = "D" -> "d"
      [] c = "E" -> "e" [] c = "F" -> "f" [] c = "G" -> "g" [] c = "H" -> "h"
      [] c = "I" -> "i" [] c = "J" -> "j" [] c = "K" -> "k" [] c = "L" -> "l"
      [] c = "M" -> "m" [] c = "N" -> "n" [] c = "O" -> "o" [] c = "P" -> "p"
      [] c = "Q" -> "q" [] c = "R" -> "r" [] c = "S" -> "s" [] c = "T" -> "t"
      [] c = "U" -> "u" [] c = "V" -> "v" [] c = "W" -> "w" [] c = "X" -> "x"
      [] c = "Y" -> "y" [] c = "Z" -> "z" [] OTHER -> c

lower(s) == [i \in 1..Len(s) |-> LowerChar(s[i])]

endswith(s, suffix) ==
    /\ Len(s) >= Len(suffix)
    /\ SubSeq(s, Len(s) - Len(suffix) + 1, Len(s)) = suffix

\* The path as the string os.path.join builds: the components joined by "/".
RECURSIVE PathString(_)
PathString(p) ==
    IF Len(p) = 0 THEN <<>>
    ELSE IF Len(p) = 1 THEN p[1]
    ELSE PathString(SubSeq(p, 1, Len(p) - 1)) \o <<"/">> \o p[Len(p)]

DcmExtension == <<".", "d", "c", "m">>

HasDcmExtensionExact(file_path) == endswith(PathString(file_path), DcmExtension)

\* file_path.lower().endswith(".dcm")
HasDcmExtension(file_path) == endswith(lower(PathString(file_path)), DcmExtension)

-----------------------------------------------------------------------------
(* Paths *)

\* os.path.dirname
dirname(p) == SubSeq(p, 1, Len(p) - 1)

\* What os.makedirs(p, exist_ok=True) makes exist: p and every ancestor.
makedirs(p) == {SubSeq(p, 1, k) : k \in 1..Len(p)}

\* os.path.relpath(file_path, start) for a file_path under start.
relpath(file_path, start) == SubSeq(file_path, Len(start) + 1, Len(file_path))

\* os.path.join(a, b) for a relative b.
join(a, b) == a \o b

OutputPathFlat(in_dir, out_dir, file_path) ==
    IF out_dir # <<>> THEN join(out_dir, <<file_path[Len(file_path)]>>) ELSE file_path

\* The output path of a compressed file: mirrored under the output root when
\* one is given, the file itself otherwise.
OutputPath(in_dir, out_dir, file_path) ==
    IF out_dir # <<>>
    THEN join(out_dir, relpath(file_path, in_dir))
    ELSE file_path

-----------------------------------------------------------------------------
(* Transfer syntaxes *)

compressed_uids == <<
    "1.2.840.10008.1.2.4.50", "1.2.840.10008.1.2.4.51", "1.2.840.10008.1.2.4.52",
    "1.2.840.10008.1.2.4.53", "1.2.840.10008.1.2.4.54", "1.2.840.10008.1.2.4.55",
    "1.2.840.10008.1.2.4.56", "1.2.840.10008.1.2.4.57", "1.2.840.10008.1.2.4.58",
    "1.2.840.10008.1.2.4.59", "1.2.840.10008.1.2.4.60", "1.2.840.10008.1.2.4.61",
    "1.2.840.10008.1.2.4.62", "1.2.840.10008.1.2.4.63", "1.2.840.10008.1.2.4.64",
    "1.2.840.10008.1.2.4.65", "1.2.840.10008.1.2.4.66", "1.2.840.10008.1.2.4.70",
    "1.2.840.10008.1.2.4.80", "1.2.840.10008.1.2.4.81",
    "1.2.840.10008.1.2.4.90", "1.2.840.10008.1.2.4.91", "1.2.840.10008.1.2.4.92",
    "1.2.840.10008.1.2.4.93",
    "1.2.840.10008.1.2.4.94", "1.2.840.10008.1.2.4.95",
    "1.2.840.10008.1.2.5",
    "1.2.840.10008.1.2.4.100", "1.2.840.10008.1.2.4.102", "1.2.840.10008.1.2.4.103",
    "1.2.840.10008.1.2.4.201", "1.2.840.10008.1.2.4.202", "1.2.840.10008.1.2.4.203" >>

\* pydicom.uid.ExplicitVRLittleEndian
ExplicitVRLittleEndian == "1.2.840.10008.1.2.1"

\* A file meta header that has no TransferSyntaxUID element.
NoUID == "<no TransferSyntaxUID>"

\* x in a_list
InList(x, l) == \E i \in 1..Len(l) : l[i] = x

-----------------------------------------------------------------------------
(* Instance numbers: the text of an IS (integer string) element *)

Digits == {"0", "1", "2", "3", "4", "5", "6", "7", "8", "9"}

DigitValue(c) ==
    CASE c = "0" -> 0 [] c = "1" -> 1 [] c = "2" -> 2 [] c = "3" -> 3 [] c = "4" -> 4
      [] c = "5" -> 5 [] c = "6" -> 6 [] c = "7" -> 7 [] c = "8" -> 8 [] c = "9" -> 9

DigitChar(d) ==
    CASE d = 0 -> "0" [] d = 1 -> "1" [] d = 2 -> "2" [] d = 3 -> "3" [] d = 4 -> "4"
      [] d = 5 -> "5" [] d = 6 -> "6" [] d = 7 -> "7" [] d = 8 -> "8" [] d = 9 -> "9"

AllDigits(s) == Len(s) > 0 /\ \A i \in 1..Len(s) : s[i] \in Digits

RECURSIVE DigitsToNat(_)
DigitsToNat(s) ==
    IF Len(s) = 0 THEN 0
    ELSE 10 * DigitsToNat(SubSeq(s, 1, Len(s) - 1)) + DigitValue(s[Len(s)])

RECURSIVE NatToDigits(_)
NatToDigits(n) ==
    IF n < 10 THEN <<DigitChar(n)>>
    ELSE NatToDigits(n \div 10) \o <<DigitChar(n % 10)>>

\* str(n) for an int n.
IntToText(n) == IF n < 0 THEN <<"-">> \o NatToDigits(0 - n) ELSE NatToDigits(n)

\* The text without its sign, and the sign.
Unsigned(s) == IF Len(s) > 0 /\ s[1] \in {"-", "+"} THEN Tail(s) ELSE s
Negative(s) == Len(s) > 0 /\ s[1] = "-"

\* The positions of "." in s.
Dots(s) == {i \in 1..Len(s) : s[i] = "."}

\* The value pydicom's IS gives the text of an element, then int() of it:
\*   ""            -> None, and int(None) raises TypeError
\*   "7", "-3"     -> the integer
\*   "2.0"         -> 2 (a float text that loses nothing)
\*   "1.5"         -> IS raises TypeError
\*   anything else -> ValueError
\* [raised, value]
IntOfIS(text) ==
    LET u == Unsigned(text)
        sign == IF Negative(text) THEN -1 ELSE 1
    IN  IF AllDigits(u) THEN [raised |-> FALSE, value |-> sign * DigitsToNat(u)]
        ELSE IF Cardinality(Dots(u)) = 1
        THEN LET d == CHOOSE i \in Dots(u) : TRUE
                 whole == SubSeq(u, 1, d - 1)
                 frac == SubSeq(u, d + 1, Len(u))
             IN  IF AllDigits(whole) /\ AllDigits(frac)
                    /\ \A i \in 1..Len(frac) : frac[i] = "0"
                 THEN [raised |-> FALSE, value |-> sign * DigitsToNat(whole)]
                 ELSE [raised |-> TRUE, value |-> 0]
        ELSE [raised |-> TRUE, value |-> 0]

\* An element that the data set does not hold.
Absent == "<absent>"
NoInstanceNumber == [present |-> FALSE, text |-> <<>>]
InstanceNumberOf(text) == [present |-> TRUE, text |-> text]

-----------------------------------------------------------------------------
(* File contents *)

\* A compressed (JPEG baseline), readable, decodable file of series A.
BaseFile ==
    [parsable |-> TRUE,
     TransferSyntaxUID |-> "1.2.840.10008.1.2.4.50",
     decodable |-> TRUE,
     dtype |-> "uint16",
     samples |-> "px1",
     native |-> FALSE,
     VR |-> "OB",
     SeriesInstanceUID |-> "1.2.3.1",
     StudyInstanceUID |-> "1.2.3",
     SeriesNumber |-> "1",
     ImageOrientationPatient |-> "1,0,0,0,1,0",
     ImagePositionPatient |-> "0,0,10",
     InstanceNumber |-> InstanceNumberOf(<<"7">>)]

\* A compressed (RLE) 8-bit file of series B with no instance number.
SeriesBFile ==
    [BaseFile EXCEPT !.TransferSyntaxUID = "1.2.840.10008.1.2.5",
                     !.dtype = "uint8",
                     !.samples = "px2",
                     !.SeriesInstanceUID = "4.5.6.2",
                     !.StudyInstanceUID = "4.5.6",
                     !.SeriesNumber = "2",
                     !.ImageOrientationPatient = "0,1,0,0,0,1",
                     !.ImagePositionPatient = "5,5,0",
                     !.InstanceNumber = NoInstanceNumber]

\* A file that is already Explicit VR Little Endian.
UncompressedFile ==
    [BaseFile EXCEPT !.TransferSyntaxUID = ExplicitVRLittleEndian,
                     !.native = TRUE, !.VR = "OW", !.samples = "px3"]

\* The bytes of a compressed file whose header pydicom cannot parse.
CorruptFile == [BaseFile EXCEPT !.parsable = FALSE, !.decodable = FALSE]

\* A compressed (JPEG 2000) file whose payload the imaging library cannot decode.
UndecodableFile ==
    [BaseFile EXCEPT !.TransferSyntaxUID = "1.2.840.10008.1.2.4.90",
                     !.decodable = FALSE]

\* A compressed file whose InstanceNumber element is present and empty.
EmptyInstanceFile ==
    [BaseFile EXCEPT !.TransferSyntaxUID = "1.2.840.10008.1.2.4.80",
                     !.InstanceNumber = InstanceNumberOf(<<>>)]

\* A file whose file meta holds no TransferSyntaxUID.
NoUIDFile == [BaseFile EXCEPT !.TransferSyntaxUID = NoUID]

\* The files of the input tree.
WalkKinds ==
    {BaseFile, SeriesBFile, UncompressedFile, CorruptFile, UndecodableFile,
     EmptyInstanceFile, NoUIDFile}

\* Transfer syntaxes tried on the classifier: members of the list, uncompressed
\* ones, and compressed ones the list does not name.
TestUIDs ==
    {"1.2.840.10008.1.2.4.50", "1.2.840.10008.1.2.4.70", "1.2.840.10008.1.2.4.203",
     "1.2.840.10008.1.2.5", "1.2.840.10008.1.2.4.100",
     "1.2.840.10008.1.2", ExplicitVRLittleEndian, "1.2.840.10008.1.2.2",
     "1.2.840.10008.1.2.1.99", "1.2.840.10008.1.2.4.101", "1.2.840.10008.1.2.4.5",
     NoUID}

\* Instance number texts tried on the converter.
TestInstanceNumbers ==
    {NoInstanceNumber, InstanceNumberOf(<<>>), InstanceNumberOf(<<"7">>),
     InstanceNumberOf(<<"1", "2">>), InstanceNumberOf(<<"-", "3">>),
     InstanceNumberOf(<<"2", ".", "0">>), InstanceNumberOf(<<"1", ".", "5">>),
     InstanceNumberOf(<<"x">>)}

\* The files handed to a function called directly.
LibraryKinds ==
    WalkKinds
    \cup {[BaseFile EXCEPT !.TransferSyntaxUID = u] : u \in TestUIDs}
    \cup {[BaseFile EXCEPT !.InstanceNumber = n] : n \in TestInstanceNumbers}
    \cup {[SeriesBFile EXCEPT !.ImagePositionPatient = Absent],
          [BaseFile EXCEPT !.dtype = "int16"]}

\* What open(path, "wb") leaves when the first write after it raises.
EmptyFile ==
    [parsable |-> FALSE, TransferSyntaxUID |-> NoUID, decodable |-> FALSE,
     dtype |-> Absent, samples |-> Absent, native |-> FALSE, VR |-> Absent,
     SeriesInstanceUID |-> Absent, StudyInstanceUID |-> Absent,
     SeriesNumber |-> Absent, ImageOrientationPatient |-> Absent,
     ImagePositionPatient |-> Absent, InstanceNumber |-> NoInstanceNumber]

\* What a write that raises part way leaves of ds: the header and a cut payload.
PartialFile(ds) == [ds EXCEPT !.decodable = FALSE, !.samples = "<cut>"]

\* No file at a path.
NoFile == [exists |-> FALSE]
Content(fsys, p) == IF p \in DOMAIN fsys THEN fsys[p] ELSE NoFile

\* Python's None.
None == [isNone |-> TRUE]

\* not reference_metadata: None is falsy, a data set that holds elements is not.
IsNone(r) == "isNone" \in DOMAIN r

-----------------------------------------------------------------------------
(* The format classifier *)

\* pydicom.dcmread: raises for a missing file and for a header it cannot parse.
dcmread(fsys, file_path) ==
    IF file_path \in DOMAIN fsys /\ fsys[file_path].parsable
    THEN [raised |-> FALSE, ds |-> fsys[file_path]]
    ELSE [raised |-> TRUE]

IsCompressedLog(file_path) ==
    [level |-> "ERROR", message |-> "Error reading file", path |-> file_path]

ClassifyTrueOnError(r, file_path) ==
    IF r.raised
    THEN [value |-> TRUE, log |-> {IsCompressedLog(file_path)}]
    ELSE IF r.ds.TransferSyntaxUID = NoUID
    THEN [value |-> TRUE, log |-> {IsCompressedLog(file_path)}]
    ELSE [value |-> InList(r.ds.TransferSyntaxUID, compressed_uids), log |-> {}]

\* Lines 84-88: r is what reading the header gave; a failed read and a file
\* meta without the element (AttributeError) both end in the except clause.
Classify(r, file_path) ==
    IF r.raised
    THEN [value |-> FALSE, log |-> {IsCompressedLog(file_path)}]
    ELSE IF r.ds.TransferSyntaxUID = NoUID
    THEN [value |-> FALSE, log |-> {IsCompressedLog(file_path)}]
    ELSE [value |-> InList(r.ds.TransferSyntaxUID, compressed_uids), log |-> {}]

\* is_compressed: [value, log]
is_compressed(fsys, file_path) == Classify(dcmread(fsys, file_path), file_path)

-----------------------------------------------------------------------------
(* The single-file converter *)

\* sitk.ReadImage then sitk.GetArrayFromImage: raises when the payload cannot
\* be decoded.
ReadImage(fsys, file_path) ==
    IF file_path \in DOMAIN fsys /\ fsys[file_path].decodable
    THEN [raised |-> FALSE,
          image_array |-> [dtype |-> fsys[file_path].dtype,
                           samples |-> fsys[file_path].samples]]
    ELSE [raised |-> TRUE]

\* The value representation of the payload element.
PixelVR(dtype) == IF dtype \in {"uint16", "int16"} THEN "OW" ELSE "OB"

\* ds.PixelData = image_array.tobytes() and the VR of the element.
SetPixelData(ds, image_array) ==
    [ds EXCEPT !.native = TRUE, !.samples = image_array.samples,
               !.VR = PixelVR(image_array.dtype)]

SeriesFields ==
    {"SeriesInstanceUID", "StudyInstanceUID", "SeriesNumber",
     "ImageOrientationPatient", "ImagePositionPatient"}

\* Reading an attribute the reference does not hold raises AttributeError.
ReferenceComplete(reference_metadata) ==
    \A f \in SeriesFields : reference_metadata[f] # Absent

StampReferenceNoPosition(ds, reference_metadata) ==
    [ds EXCEPT !.SeriesInstanceUID = reference_metadata.SeriesInstanceUID,
               !.StudyInstanceUID = reference_metadata.StudyInstanceUID,
               !.SeriesNumber = reference_metadata.SeriesNumber,
               !.ImageOrientationPatient = reference_metadata.ImageOrientationPatient]

\* The five assignments from the reference.
StampReference(ds, reference_metadata) ==
    [ds EXCEPT !.SeriesInstanceUID = reference_metadata.SeriesInstanceUID,
               !.StudyInstanceUID = reference_metadata.StudyInstanceUID,
               !.SeriesNumber = reference_metadata.SeriesNumber,
               !.ImageOrientationPatient = reference_metadata.ImageOrientationPatient,
               !.ImagePositionPatient = reference_metadata.ImagePositionPatient]

NormalizeInstanceNumberDefaultZero(ds) ==
    IF ds.InstanceNumber.present
    THEN LET n == IntOfIS(ds.InstanceNumber.text)
         IN  IF n.raised THEN [raised |-> TRUE]
             ELSE [raised |-> FALSE,
                   ds |-> [ds EXCEPT !.InstanceNumber = InstanceNumberOf(IntToText(n.value))]]
    ELSE [raised |-> FALSE,
          ds |-> [ds EXCEPT !.InstanceNumber = InstanceNumberOf(IntToText(0))]]

\* int(ds.InstanceNumber) when the element is in ds, 1 otherwise.
NormalizeInstanceNumber(ds) ==
    IF ds.InstanceNumber.present
    THEN LET n == IntOfIS(ds.InstanceNumber.text)
         IN  IF n.raised THEN [raised |-> TRUE]
             ELSE [raised |-> FALSE,
                   ds |-> [ds EXCEPT !.InstanceNumber = InstanceNumberOf(IntToText(n.value))]]
    ELSE [raised |-> FALSE,
          ds |-> [ds EXCEPT !.InstanceNumber = InstanceNumberOf(IntToText(1))]]

SetTransferSyntaxKept(ds) == ds

\* ds.file_meta.TransferSyntaxUID = ExplicitVRLittleEndian
SetTransferSyntax(ds) == [ds EXCEPT !.TransferSyntaxUID = ExplicitVRLittleEndian]

\* What the environment does to a write.
Faults == {"none", "open", "empty", "partial"}

\* The file system with ds (or what is left of it) at output_path.
WriteFile(fsys, output_path, content) ==
    [p \in DOMAIN fsys \cup {output_path} |->
        IF p = output_path THEN content ELSE fsys[p]]

\* ds.save_as(output_path): opening raises when the parent directory is missing,
\* when the path is a directory, or when the environment refuses; a write that
\* raises after the file was opened leaves it empty or partial.
save_as(fsys, dirset, output_path, ds, fault) ==
    IF dirname(output_path) \notin dirset \/ output_path \in dirset \/ fault = "open"
    THEN [raised |-> TRUE, fs |-> fsys]
    ELSE IF fault = "empty"
    THEN [raised |-> TRUE, fs |-> WriteFile(fsys, output_path, EmptyFile)]
    ELSE IF fault = "partial"
    THEN [raised |-> TRUE, fs |-> WriteFile(fsys, output_path, PartialFile(ds))]
    ELSE [raised |-> FALSE, fs |-> WriteFile(fsys, output_path, ds)]

\* A step of the try raised: nothing is returned.
Raised(step, fsys) == [step |-> step, fs |-> fsys, ret |-> None]

\* Line 121 and the return: w is what save_as did.
TrySave(w, ref) ==
    [step |-> IF w.raised THEN "write" ELSE "ok", fs |-> w.fs, ret |-> ref]

\* Lines 120-124 on ds, the data set with its instance number normalised.
\* reference_metadata = ds names the data set itself, so without a reference
\* what is returned is ds as saved.
TryFinish(fsys, dirset, output_path, reference_metadata, fault, ds) ==
    TrySave(save_as(fsys, dirset, output_path, ds, fault),
            IF IsNone(reference_metadata) THEN ds ELSE reference_metadata)

\* Lines 115-118: n is what normalising the instance number gave.
TryInstanceNumber(fsys, dirset, output_path, reference_metadata, fault, n) ==
    IF n.raised THEN Raised("rewrite", fsys)
    ELSE TryFinish(fsys, dirset, output_path, reference_metadata, fault,
                   SetTransferSyntax(n.ds))

\* Lines 106-113 on ds, the data set with its new payload.
TryReference(fsys, dirset, output_path, reference_metadata, fault, ds) ==
    IF IsNone(reference_metadata)
    THEN TryInstanceNumber(fsys, dirset, output_path, reference_metadata, fault,
                           NormalizeInstanceNumber(ds))
    ELSE IF ~ReferenceComplete(reference_metadata)
    THEN Raised("rewrite", fsys)
    ELSE TryInstanceNumber(fsys, dirset, output_path, reference_metadata, fault,
                           NormalizeInstanceNumber(StampReference(ds, reference_metadata)))

\* Lines 98-104: a is what decoding the payload gave.
TryDecode(fsys, dirset, output_path, reference_metadata, fault, ds, a) ==
    IF a.raised THEN Raised("decode", fsys)
    ELSE TryReference(fsys, dirset, output_path, reference_metadata, fault,
                      SetPixelData(ds, a.image_array))

\* Line 97: r is what reading the file gave.
TryRead(fsys, dirset, file_path, output_path, reference_metadata, fault, r) ==
    IF r.raised THEN Raised("read", fsys)
    ELSE TryDecode(fsys, dirset, output_path, reference_metadata, fault, r.ds,
                   ReadImage(fsys, file_path))

\* The body of the try: [step, fs, ret], step the step that raised or "ok".
TryBody(fsys, dirset, file_path, output_path, reference_metadata, fault) ==
    TryRead(fsys, dirset, file_path, output_path, reference_metadata, fault,
            dcmread(fsys, file_path))

ConvertErrorLog(file_path) ==
    [level |-> "ERROR", message |-> "Failed to decompress file", path |-> file_path]

ExceptHandlerReturnsReference(t, file_path, output_path) ==
    [fs |-> t.fs, result |-> t.ret, step |-> t.step,
     log |-> {ConvertErrorLog(file_path)}]

ExceptHandlerRemovesOutput(t, file_path, output_path) ==
    [fs |-> [p \in DOMAIN t.fs \ {output_path} |-> t.fs[p]],
     result |-> None, step |-> t.step, log |-> {ConvertErrorLog(file_path)}]

\* except Exception: log the error with the input path and return None.
ExceptHandler(t, file_path, output_path) ==
    [fs |-> t.fs, result |-> None, step |-> t.step,
     log |-> {ConvertErrorLog(file_path)}]

\* The return after the try: t is what its body did.
Return(t, file_path, output_path) ==
    IF t.step # "ok"
    THEN ExceptHandler(t, file_path, output_path)
    ELSE [fs |-> t.fs, result |-> t.ret, step |-> "ok",
          log |-> {[level |-> "DEBUG", message |-> "Decompressed and saved file",
                    path |-> output_path]}]

\* decompress_and_save_with_metadata: [fs, result, step, log]
decompress_and_save_with_metadata(fsys, dirset, file_path, output_path, reference_metadata, fault) ==
    Return(TryBody(fsys, dirset, file_path, output_path, reference_metadata, fault),
           file_path, output_path)

-----------------------------------------------------------------------------
(* The directory walker *)

\* One converter call as the history keeps it.
CallRecord(fsys, dirset, file_path, output_path, reference_metadata, r) ==
    [file_path |-> file_path,
     output_path |-> output_path,
     reference |-> reference_metadata,
     parents_exist |-> dirname(output_path) \in dirset,
     input_before |-> Content(fsys, file_path),
     output_before |-> Content(fsys, output_path),
     step |-> r.step,
     result |-> r.result,
     output_after |-> Content(r.fs, output_path),
     changed |-> {p \in DOMAIN fsys \cup DOMAIN r.fs : Content(fsys, p) # Content(r.fs, p)}]

\* One classifier call as the history keeps it.
ClassifyRecord(fsys, file_path, c) ==
    [path |-> file_path, file |-> Content(fsys, file_path), value |-> c.value]

\* The reference the walker hands the converter: none, for every file.
WalkerReference(previous_calls) == None

\* What a pass of the loop that touches nothing leaves.
LoopSkip(fsys, dirset) ==
    [fs |-> fsys, dirs |-> dirset, log |-> {}, classified |-> {},
     calls |-> <<>>, crashed |-> FALSE, failed |-> FALSE]

\* Line 149: r is what the converter did; its result is dropped.
LoopConverted(fsys, dirset, file_path, output_file_path, reference, r) ==
    [fs |-> r.fs, dirs |-> dirset,
     log |-> r.log \cup {[level |-> "DEBUG", message |-> "Compressed file found",
                          path |-> file_path]},
     classified |-> {},
     calls |-> <<CallRecord(fsys, dirset, file_path, output_file_path, reference, r)>>,
     crashed |-> FALSE,
     failed |-> r.step # "ok"]

\* Line 149, with the directories as line 145 left them.
LoopConvert(fsys, dirset, file_path, output_file_path, reference, fault) ==
    LoopConverted(fsys, dirset, file_path, output_file_path, reference,
                  decompress_and_save_with_metadata(fsys, dirset, file_path,
                                                    output_file_path, reference, fault))

\* Lines 140-149 for a file found compressed.  os.makedirs may raise, and
\* nothing catches it.
LoopCompressed(fsys, dirset, out_dir, file_path, output_file_path, fault, mkdir_ok) ==
    IF out_dir = <<>>
    THEN LoopConvert(fsys, dirset, file_path, output_file_path,
                     WalkerReference(<<>>), fault)
    ELSE IF ~mkdir_ok
    THEN [LoopSkip(fsys, dirset) EXCEPT
            !.crashed = TRUE,
            !.log = {[level |-> "DEBUG", message |-> "Compressed file found",
                      path |-> file_path]}]
    ELSE LoopConvert(fsys, dirset \cup makedirs(dirname(output_file_path)),
                     file_path, output_file_path, WalkerReference(<<>>), fault)

\* Lines 139-151: c is what the classifier answered.
LoopClassified(fsys, dirset, in_dir, out_dir, file_path, fault, mkdir_ok, c) ==
    IF c.value
    THEN LoopCompressed(fsys, dirset, out_dir, file_path,
                        OutputPath(in_dir, out_dir, file_path), fault, mkdir_ok)
    ELSE [LoopSkip(fsys, dirset) EXCEPT
            !.failed = c.log # {},
            !.log = {[level |-> "DEBUG", message |-> "File is already uncompressed",
                      path |-> file_path]}]

\* The classifier's call joined to what the pass did.
WithClassified(b, record, c) ==
    [b EXCEPT !.classified = {record}, !.log = b.log \cup c.log]

\* Line 139 on: the classifier is called once, c is its answer.
LoopIsCompressed(fsys, dirset, in_dir, out_dir, file_path, fault, mkdir_ok, c) ==
    WithClassified(LoopClassified(fsys, dirset, in_dir, out_dir, file_path, fault,
                                  mkdir_ok, c),
                   ClassifyRecord(fsys, file_path, c), c)

\* The body of the inner loop for one file:
\* [fs, dirs, log, classified, calls, crashed, failed]
LoopBody(fsys, dirset, in_dir, out_dir, file_path, fault, mkdir_ok) ==
    IF ~HasDcmExtension(file_path)
    THEN LoopSkip(fsys, dirset)
    ELSE LoopIsCompressed(fsys, dirset, in_dir, out_dir, file_path, fault, mkdir_ok,
                          is_compressed(fsys, file_path))

NextFilesStopOnFailure(remaining, file_path, failed) ==
    IF failed THEN {} ELSE remaining \ {file_path}

\* The files of the directory left to process after file_path: the loop goes
\* on whatever happened to file_path.
NextFiles(remaining, file_path, failed) == remaining \ {file_path}

\* The orders in which a set can be listed.
Orders(S) ==
    {o \in [1..Cardinality(S) -> S] : \A i, j \in 1..Cardinality(S) : i # j => o[i] # o[j]}

\* os.path.exists
exists(fsys, dirset, p) == p \in dirset \/ p \in DOMAIN fsys

-----------------------------------------------------------------------------
(* The names and the inputs of the model *)

InDir == <<"i", "n">>
OutDir == <<"o", "u", "t">>
SubDir == <<"s", "1">>
FileLower == <<"a", ".", "d", "c", "m">>
FileUpper == <<"b", ".", "D", "C", "M">>
FileText == <<"n", ".", "t", "x", "t">>
FileGone == <<"g", ".", "d", "c", "m">>

\* Where the input tree may hold a file.
CandidatePaths ==
    {<<InDir, FileLower>>, <<InDir, FileUpper>>, <<InDir, FileText>>,
     <<InDir, SubDir, FileLower>>}

\* --output_dir: none, a separate root, the input root itself, a directory
\* inside the input root.
OutputDirs == {<<>>, <<OutDir>>, <<InDir>>, <<InDir, SubDir>>}

\* The references handed to the converter called directly.
References ==
    {None, BaseFile, SeriesBFile, [SeriesBFile EXCEPT !.ImagePositionPatient = Absent]}

\* The directories of a tree of files under the input root.
TreeDirs(paths) == {<<InDir>>} \cup UNION {makedirs(dirname(p)) : p \in paths}

InitHistory ==
    /\ pc = "start"
    /\ stack = <<>>
    /\ files = {}
    /\ log = {}
    /\ classified = {}
    /\ calls = <<>>
    /\ enumerated = {}
    /\ fs0 = fs

\* The command line: a tree of at most MaxFiles files and an output root.
InitMain ==
    /\ entry = "main"
    /\ input_dir = <<InDir>>
    /\ output_dir \in OutputDirs
    /\ \E paths \in SUBSET CandidatePaths :
        /\ Cardinality(paths) <= MaxFiles
        /\ fs \in [paths -> WalkKinds]
        /\ dirs \in {TreeDirs(paths), TreeDirs(paths) \cup {<<OutDir>>}}
        /\ output_dir # <<OutDir>> => dirs = TreeDirs(paths)

\* A function called directly: one input file, and perhaps a file where the
\* output goes.
InitLibrary ==
    /\ entry = "library"
    /\ input_dir = <<InDir>>
    /\ output_dir = <<>>
    /\ \E kind \in LibraryKinds, old \in {NoFile, SeriesBFile} :
        fs = IF old = NoFile
             THEN [p \in {<<InDir, FileLower>>} |-> kind]
             ELSE [p \in {<<InDir, FileLower>>, <<OutDir, FileLower>>} |->
                      IF p = <<InDir, FileLower>> THEN kind ELSE old]
    /\ dirs = {<<InDir>>, <<OutDir>>}

Init == (InitMain \/ InitLibrary) /\ InitHistory

-----------------------------------------------------------------------------
(* The actions *)

\* __main__: create the output root when one is given and missing, then walk.
Main ==
    /\ entry = "main"
    /\ pc = "start"
    /\ \E mkdir_ok \in BOOLEAN :
        IF output_dir # <<>> /\ ~exists(fs, dirs, output_dir)
        THEN IF mkdir_ok
             THEN /\ dirs' = dirs \cup makedirs(output_dir)
                  /\ pc' = "walk"
                  /\ stack' = <<input_dir>>
             ELSE /\ pc' = "crashed"
                  /\ UNCHANGED <<dirs, stack>>
        ELSE /\ mkdir_ok
             /\ pc' = "walk"
             /\ stack' = <<input_dir>>
             /\ UNCHANGED dirs
    /\ UNCHANGED <<entry, input_dir, output_dir, fs, files, log, classified,
                   calls, enumerated, fs0>>

\* os.walk scans the next directory: its files are yielded, its
\* subdirectories are scanned after them, before the rest.
WalkDir ==
    /\ pc = "walk"
    /\ files = {}
    /\ stack # <<>>
    /\ LET root == Head(stack)
           found == {p \in DOMAIN fs : dirname(p) = root}
           subdirs == {d \in dirs : Len(d) > 0 /\ dirname(d) = root}
       IN  /\ files' = found
           /\ enumerated' = enumerated \cup found
           /\ \E order \in Orders(subdirs) : stack' = order \o Tail(stack)
    /\ UNCHANGED <<entry, input_dir, output_dir, fs, dirs, pc, log, classified,
                   calls, fs0>>

\* One pass of the inner loop, on any of the files left.
ProcessFile ==
    /\ pc = "walk"
    /\ files # {}
    /\ \E file_path \in files, fault \in Faults, mkdir_ok \in BOOLEAN :
        LET b == LoopBody(fs, dirs, input_dir, output_dir, file_path, fault, mkdir_ok)
        IN  /\ fs' = b.fs
            /\ dirs' = b.dirs
            /\ log' = log \cup b.log
            /\ classified' = classified \cup b.classified
            /\ calls' = calls \o b.calls
            /\ pc' = IF b.crashed THEN "crashed" ELSE "walk"
            /\ files' = IF b.crashed THEN files ELSE NextFiles(files, file_path, b.failed)
    /\ UNCHANGED <<entry, input_dir, output_dir, stack, enumerated, fs0>>

\* os.walk is exhausted: process_dicom_directory returns.
WalkDone ==
    /\ pc = "walk"
    /\ files = {}
    /\ stack = <<>>
    /\ pc' = "done"
    /\ UNCHANGED <<entry, input_dir, output_dir, fs, dirs, stack, files, log,
                   classified, calls, enumerated, fs0>>

\* decompress_and_save_with_metadata called directly, with any arguments.
CallConverter ==
    /\ entry = "library"
    /\ pc = "start"
    /\ \E file_path \in {<<InDir, FileLower>>, <<InDir, FileGone>>},
          output_path \in {<<InDir, FileLower>>, <<OutDir, FileLower>>,
                           <<InDir, SubDir, FileLower>>},
          reference_metadata \in References,
          fault \in Faults :
        LET r == decompress_and_save_with_metadata(fs, dirs, file_path, output_path,
                                                   reference_metadata, fault)
        IN  /\ fs' = r.fs
            /\ log' = log \cup r.log
            /\ calls' = calls \o <<CallRecord(fs, dirs, file_path, output_path,
                                              reference_metadata, r)>>
    /\ pc' = "done"
    /\ UNCHANGED <<entry, input_dir, output_dir, dirs, stack, files, classified,
                   enumerated, fs0>>

\* is_compressed called directly.
CallClassifier ==
    /\ entry = "library"
    /\ pc = "start"
    /\ \E file_path \in {<<InDir, FileLower>>, <<InDir, FileGone>>} :
        LET c == is_compressed(fs, file_path)
        IN  /\ log' = log \cup c.log
            /\ classified' = classified \cup {ClassifyRecord(fs, file_path, c)}
    /\ pc' = "done"
    /\ UNCHANGED <<entry, input_dir, output_dir, fs, dirs, stack, files, calls,
                   enumerated, fs0>>

Next == Main \/ WalkDir \/ ProcessFile \/ WalkDone \/ CallConverter \/ CallClassifier

Spec == Init /\ [][Next]_vars

-----------------------------------------------------------------------------
(* What the properties are stated with *)

\* The members of the compressed list, as a set.
CompressedSet == {compressed_uids[i] : i \in 1..Len(compressed_uids)}

\* A file whose header can be read and whose transfer syntax is in the list.
IsCompressedContent(file) ==
    IF file = NoFile THEN FALSE
    ELSE file.parsable /\ file.TransferSyntaxUID \in CompressedSet

\* The file name ends with .dcm in any mix of cases.
NameEndsWithDcm(p) ==
    LET name == p[Len(p)]
        n == Len(name)
    IN  /\ n >= 4
        /\ name[n - 3] = "."
        /\ name[n - 2] \in {"d", "D"}
        /\ name[n - 1] \in {"c", "C"}
        /\ name[n] \in {"m", "M"}

\* The five series-level values of a data set.
Five(ds) == [f \in SeriesFields |-> ds[f]]

\* The text of an integer as Python prints it.
IsIntegerText(t) == AllDigits(Unsigned(t)) /\ t[1] # "+"

\* out is the text of the integer the text inp stands for.
SameInteger(inp, out) ==
    \E n \in -99..99 :
        /\ out = IntToText(n)
        /\ inp \in {IntToText(n), IntToText(n) \o <<".", "0">>}

\* What a successful conversion leaves of the payload and the encoding.
IsConvertedCopy(after, before) ==
    /\ after # NoFile
    /\ after.parsable
    /\ after.native
    /\ after.samples = before.samples
    /\ after.TransferSyntaxUID = ExplicitVRLittleEndian

\* d is p or an ancestor of p.
IsPrefix(d, p) == Len(d) <= Len(p) /\ SubSeq(p, 1, Len(d)) = d

CallIndex == 1..Len(calls)

-----------------------------------------------------------------------------
(* The properties *)

\* C1: every file a successful conversion writes carries Explicit VR Little
\* Endian, which is not in the compressed list, whatever the input file and
\* the reference; and the file at the output path of a successful conversion
\* never again has a compressed transfer syntax.
C1_OutputUncompressed ==
    \A i \in CallIndex :
        calls[i].step = "ok" =>
            /\ calls[i].output_after.TransferSyntaxUID = ExplicitVRLittleEndian
            /\ calls[i].output_after.TransferSyntaxUID \notin CompressedSet
            /\ Content(fs, calls[i].output_path) # NoFile
            /\ Content(fs, calls[i].output_path).TransferSyntaxUID \notin CompressedSet

C1_Witness ==
    \E i \in CallIndex :
        /\ calls[i].step = "ok"
        /\ calls[i].input_before.TransferSyntaxUID \in CompressedSet
        /\ ~IsNone(calls[i].reference)

\* C2: is_compressed answers true exactly for a file whose header can be read
\* and whose transfer syntax is in the compressed list; for a missing or
\* unreadable file and for a file meta without the element it answers false,
\* logs the error and does not raise.
C2_Classifier ==
    /\ \A c \in classified :
        /\ c.value = IsCompressedContent(c.file)
        /\ (c.file = NoFile \/ ~c.file.parsable \/ c.file.TransferSyntaxUID = NoUID)
              => IsCompressedLog(c.path) \in log
    /\ (entry = "library" /\ classified # {}) => pc = "done"

C2_Witness ==
    \E c, d \in classified :
        /\ c.value
        /\ d.file # NoFile
        /\ ~d.file.parsable
        /\ d.file.TransferSyntaxUID \in CompressedSet
        /\ ~d.value

\* C3: when the walk returns, every file os.walk yielded whose name ends with
\* .dcm has been classified, and every one classified compressed has had the
\* converter called on it, whatever failed on the files before it.
C3_WalkCompletes ==
    (entry = "main" /\ pc = "done") =>
        \A p \in enumerated :
            NameEndsWithDcm(p) =>
                /\ \E c \in classified : c.path = p
                /\ \A c \in classified :
                      (c.path = p /\ c.value) =>
                          \E i \in CallIndex : calls[i].file_path = p

C3_Witness ==
    /\ entry = "main"
    /\ pc = "done"
    /\ \E i, j \in CallIndex : i < j /\ calls[i].step # "ok"

\* C4 as stated: with an output root, every converter call of the walk has as
\* its output path the input file's relative path under the output root, finds
\* the parent directories of that path in place, leaves the converted copy
\* there when it succeeds, and the input file is as it was at the start.
C4_AsStated ==
    (entry = "main" /\ output_dir # <<>>) =>
        \A i \in CallIndex :
            /\ calls[i].output_path
                  = output_dir \o SubSeq(calls[i].file_path, Len(input_dir) + 1,
                                         Len(calls[i].file_path))
            /\ calls[i].parents_exist
            /\ calls[i].step = "ok"
                  => IsConvertedCopy(calls[i].output_after, calls[i].input_before)
            /\ Content(fs, calls[i].file_path) = fs0[calls[i].file_path]

\* C4, amended: with an output root, every converter call of the walk has as
\* its output path the input file's relative path under the output root, finds
\* the parent directories of that path in place, leaves the converted copy
\* there when it succeeds and changes no other path; a file of the input tree
\* that is at no call's output path is as it was at the start, and so is every
\* file of the input tree when neither root lies inside the other.
C4_MirroredOutput ==
    (entry = "main" /\ output_dir # <<>>) =>
        /\ \A i \in CallIndex :
            /\ calls[i].output_path
                  = output_dir \o SubSeq(calls[i].file_path, Len(input_dir) + 1,
                                         Len(calls[i].file_path))
            /\ calls[i].parents_exist
            /\ calls[i].step = "ok"
                  => IsConvertedCopy(calls[i].output_after, calls[i].input_before)
            /\ calls[i].changed \subseteq {calls[i].output_path}
        /\ \A p \in DOMAIN fs0 :
            (\A i \in CallIndex : calls[i].output_path # p) => Content(fs, p) = fs0[p]
        /\ (~IsPrefix(input_dir, output_dir) /\ ~IsPrefix(output_dir, input_dir))
              => \A p \in DOMAIN fs0 : Content(fs, p) = fs0[p]

C4_Witness ==
    /\ entry = "main"
    /\ pc = "done"
    /\ output_dir = <<OutDir>>
    /\ \E i \in CallIndex :
        /\ calls[i].step = "ok"
        /\ calls[i].file_path = <<InDir, SubDir, FileLower>>
        /\ calls[i].output_path = <<OutDir, SubDir, FileLower>>
        /\ calls[i].output_before = NoFile
        /\ Content(fs, calls[i].file_path) = fs0[calls[i].file_path]

\* C5: without an output root, the converter is called only on files whose
\* name ends with .dcm in any case and that are compressed, each with the file
\* itself as the output path; every other file is as it was at the start; no
\* path is added; a successful call leaves the converted file at the path of
\* its input; and when the walk returns every such file has had its call.
C5_InPlace ==
    (entry = "main" /\ output_dir = <<>>) =>
        /\ DOMAIN fs = DOMAIN fs0
        /\ \A i \in CallIndex :
            /\ calls[i].output_path = calls[i].file_path
            /\ NameEndsWithDcm(calls[i].file_path)
            /\ IsCompressedContent(fs0[calls[i].file_path])
            /\ calls[i].step = "ok"
                  => IsConvertedCopy(Content(fs, calls[i].file_path),
                                     fs0[calls[i].file_path])
        /\ \A p \in DOMAIN fs0 :
            ~(NameEndsWithDcm(p) /\ IsCompressedContent(fs0[p])) => fs[p] = fs0[p]
        /\ pc = "done" =>
              \A p \in DOMAIN fs0 :
                  (NameEndsWithDcm(p) /\ IsCompressedContent(fs0[p]))
                      => \E i \in CallIndex : calls[i].file_path = p

C5_Witness ==
    /\ entry = "main"
    /\ pc = "done"
    /\ output_dir = <<>>
    /\ \E i \in CallIndex :
        /\ calls[i].step = "ok"
        /\ calls[i].file_path = <<InDir, FileUpper>>
    /\ <<InDir, FileText>> \in DOMAIN fs
    /\ IsCompressedContent(fs[<<InDir, FileText>>])

\* C6: the instance number of every file a successful conversion writes is the
\* text of an integer: the integer the input's instance number stands for when
\* the input has one, exactly 1 when it has none.
C6_InstanceNumber ==
    \A i \in CallIndex :
        calls[i].step = "ok" =>
            LET inp == calls[i].input_before.InstanceNumber
                out == calls[i].output_after.InstanceNumber
            IN  /\ out.present
                /\ IsIntegerText(out.text)
                /\ inp.present => SameInteger(inp.text, out.text)
                /\ ~inp.present => out.text = <<"1">>

C6_Witness ==
    \E i \in CallIndex :
        /\ calls[i].step = "ok"
        /\ ~calls[i].input_before.InstanceNumber.present
        /\ calls[i].output_after.InstanceNumber = InstanceNumberOf(<<"1">>)

\* C7: the converter never raises: a call in which a step raised returns None
\* and has logged the error with the input path; a call returns a reference
\* only when it wrote the output file; a direct call always returns.
C7_NeverRaises ==
    /\ \A i \in CallIndex :
        /\ calls[i].step # "ok"
              => /\ IsNone(calls[i].result)
                 /\ ConvertErrorLog(calls[i].file_path) \in log
        /\ ~IsNone(calls[i].result)
              => /\ calls[i].step = "ok"
                 /\ IsConvertedCopy(calls[i].output_after, calls[i].input_before)
    /\ (entry = "library" /\ calls # <<>>) => pc = "done"

C7_Witness ==
    \E i \in CallIndex :
        /\ calls[i].step = "write"
        /\ calls[i].changed # {}
        /\ IsNone(calls[i].result)

\* C8: for a successful conversion with a reference, the five series-level
\* values of the output are the reference's and the reference is returned;
\* without one, the output keeps the input's five values and what is returned
\* carries them.
C8_Reference ==
    \A i \in CallIndex :
        calls[i].step = "ok" =>
            IF ~IsNone(calls[i].reference)
            THEN /\ Five(calls[i].output_after) = Five(calls[i].reference)
                 /\ calls[i].result = calls[i].reference
            ELSE /\ Five(calls[i].output_after) = Five(calls[i].input_before)
                 /\ Five(calls[i].result) = Five(calls[i].input_before)

C8_Witness ==
    \E i \in CallIndex :
        /\ calls[i].step = "ok"
        /\ ~IsNone(calls[i].reference)
        /\ \A f \in SeriesFields : calls[i].reference[f] # calls[i].input_before[f]

\* C9 as stated: in a walk, every file converted after the first successful
\* conversion has the five series-level values of the first converted file.
C9_ReferenceHeld ==
    entry = "main" =>
        \A i, j \in CallIndex :
            (/\ i < j
             /\ calls[i].step = "ok"
             /\ \A k \in 1..(i - 1) : calls[k].step # "ok"
             /\ calls[j].step = "ok")
                => Five(calls[j].output_after) = Five(calls[i].output_after)

\* C10 as stated: after a call that failed, whichever step failed, the file at
\* the output path is what it was before the call.
C10_AsStated ==
    \A i \in CallIndex :
        calls[i].step # "ok" => calls[i].output_after = calls[i].output_before

\* C10, amended: a call that failed in the read, the decode or the metadata
\* rewrite step changed no file; a call that failed in the write step changed
\* no file but, possibly, the one at the output path.
C10_FailureBeforeWrite ==
    \A i \in CallIndex :
        /\ calls[i].step \in {"read", "decode", "rewrite"} => calls[i].changed = {}
        /\ calls[i].step = "write" => calls[i].changed \subseteq {calls[i].output_path}

C10_Witness ==
    \E i \in CallIndex :
        /\ calls[i].step = "rewrite"
        /\ calls[i].output_path = calls[i].file_path
        /\ IsCompressedContent(Content(fs, calls[i].file_path))

====
